---- MODULE Spec2Model ----
(***************************************************************************)
(* A model of the laravel-micro.js service container (src/src/Container.js) *)
(* and of the Kernel pipeline that the container's tests drive.             *)
(*                                                                          *)
(* Every public method of the container is one action.  A method that      *)
(* resolves an alias runs the whole recursive resolution (_resolve ->       *)
(* _resolveIfNotResolved -> _prepareForInjection -> _resolve ...) inside    *)
(* the action; the operators below thread a record "m" (the container's     *)
(* fields plus the trace of the call) through that recursion and return     *)
(* [m, ret, thrown]: the container after the step, the value returned or    *)
(* the error thrown, and which of the two it is.                            *)
(***************************************************************************)
EXTENDS Integers, Sequences, FiniteSets, TLC

VARIABLES providers, bindings, resolved, injections, shouldShare, sharedWith,
          sharable, errorHandler, objects, last,
          pipes, passable, method, cursor, invoked, delivered, phase, form

containerVars == <<providers, bindings, resolved, injections, shouldShare,
                   sharedWith, sharable, errorHandler, objects, last>>
kernelVars == <<pipes, passable, method, cursor, invoked, delivered, phase, form>>
vars == <<providers, bindings, resolved, injections, shouldShare, sharedWith,
          sharable, errorHandler, objects, last,
          pipes, passable, method, cursor, invoked, delivered, phase, form>>

(***************************************************************************)
(* JavaScript values.  t is the kind of value, k a detail of it (the        *)
(* factory that built an object, the name of an exception), of the alias    *)
(* an exception is about, n the identity of an object.                      *)
(***************************************************************************)
Val(t, k, of, n) == [t |-> t, k |-> k, of |-> of, n |-> n]
Undefined == Val("undefined", "", "", 0)
Null == Val("null", "", "", 0)
Zero == Val("number", "0", "", 0)
False == Val("boolean", "false", "", 0)
EmptyString == Val("string", "", "", 0)
ObjectLiteral == Val("object", "literal", "", 0)
Fallback == Val("object", "fallback", "", 0)
This == Val("object", "container", "", 0)
NewObject(k, n) == Val("object", k, "", n)
Exception(name, alias) == Val("exception", name, alias, 0)

\* "a" is an alias that differs from "A" in the case of its first letter
Aliases == {"A", "B", "C", "a"}
Targets == {"o1", "o2"}

\* a factory: its name ("" for an anonymous function), the pieces of its
\* parameter list as they stand between the commas of its source text, and
\* what its body does when it is called
Factory(id, name, args, body) ==
    [t |-> "function", k |-> id, name |-> name, args |-> args, body |-> body]

\* JavaScript truthiness of the values above: if (value)
Truthy(v) ==
    /\ v.t \notin {"undefined", "null"}
    /\ v \notin {Zero, False, EmptyString}

Includes(s, x) == \E i \in 1..Len(s) : s[i] = x

IndexOf(s, x) == CHOOSE i \in 1..Len(s) : s[i] = x /\ \A j \in 1..(i - 1) : s[j] # x

\* array.splice(index, 1)
Splice(s, i) == [j \in 1..(Len(s) - 1) |-> IF j < i THEN s[j] ELSE s[j + 1]]

isset(value) == value \notin {Null, Undefined}

isCallable(value) == value.t = "function"

\* String.prototype.trim on the parameter texts that occur in the model
Trim(s) ==
    CASE s = " B" -> "B"
      [] s = "C " -> "C"
      [] s = " " -> ""
      [] OTHER -> s

readArguments(callable) ==
    LET trimmed == [i \in 1..Len(callable.args) |-> Trim(callable.args[i])]
    IN  SelectSeq(trimmed, LAMBDA arg : arg # "")

\* getName(binding) !== 'Function' for a callable: a named function or class
isClass(abstract) == ~isCallable(abstract) \/ abstract.name # ""

\* '$' + alias[0].toLowerCase() + alias.substring(1)
getSharedAliasName(alias) ==
    CASE alias = "A" -> "$a"
      [] alias = "B" -> "$b"
      [] alias = "C" -> "$c"
      [] alias = "a" -> "$a"

AccessorNames == {getSharedAliasName(a) : a \in Aliases}

makeSharableAlias(alias) == Val("function", "accessor", alias, 0)

True == Val("boolean", "true", "", 0)

(***************************************************************************)
(* The container of one call: the fields of the Container object, the       *)
(* accessor properties of the objects it shares with, the identities of     *)
(* the objects that exist (live) and the trace of the call so far.          *)
(***************************************************************************)
\* an event of the call, at the depth of the _resolve that is running
Event(m, e, a, v, args) == [e |-> e, a |-> a, d |-> m.depth, v |-> v, args |-> args]

Log(m, e, a, v, args) == [m EXCEPT !.trace = Append(@, Event(m, e, a, v, args))]

Ret(m, value) == [m |-> m, ret |-> value, thrown |-> FALSE]

Throw(m, error) ==
    [m |-> Log(m, "throw", error.of, error, <<>>), ret |-> error, thrown |-> TRUE]

\* the identity of a newly allocated object: one no live object has
Fresh(m) ==
    CHOOSE n \in 1..(Cardinality(m.live) + 1) :
        n \notin m.live /\ \A k \in 1..(n - 1) : k \in m.live

handleError(m, error) ==
    IF m.errorHandler # Null /\ isCallable(m.errorHandler.handle)
    THEN Ret(Log(m, "handle", error.of, error, <<>>), m.errorHandler.ret)
    ELSE Throw(m, error)

isBound(m, alias) == isset(m.bindings[alias])

isResolved(m, alias) == isset(m.resolved[alias])

canShare(m, alias) == Includes(m.sharable, alias)

isShared(m, alias) == Len(m.sharedWith[alias]) > 0

getInstance(m, alias) == m.resolved[alias]

\* if (obj[alias]) { obj[alias] = null; delete obj[alias] }
destroyReference(alias, obj) ==
    IF Truthy(obj[alias]) THEN [obj EXCEPT ![alias] = Undefined] ELSE obj

\* unShare with the registry entry of the alias left in place
unShareKeepsEntry(m, alias) ==
    IF Len(m.sharedWith[alias]) = 0
    THEN m
    ELSE LET shared == {m.sharedWith[alias][i] : i \in 1..Len(m.sharedWith[alias])}
         IN  [m EXCEPT !.objects = [o \in Targets |->
                            IF o \in shared
                            THEN destroyReference(getSharedAliasName(alias), @[o])
                            ELSE @[o]]]

unShare(m, alias) ==
    IF Len(m.sharedWith[alias]) = 0
    THEN m
    ELSE LET shared == {m.sharedWith[alias][i] : i \in 1..Len(m.sharedWith[alias])}
         IN  [m EXCEPT !.objects = [o \in Targets |->
                            IF o \in shared
                            THEN destroyReference(getSharedAliasName(alias), @[o])
                            ELSE @[o]],
                       !.sharedWith[alias] = <<>>]

destroy(m, alias) ==
    IF isResolved(m, alias)
    THEN Ret([unShare(m, alias) EXCEPT !.resolved = destroyReference(alias, @)], True)
    ELSE Ret(m, False)

setInstance(m, alias, concrete, shared) ==
    [m EXCEPT !.resolved[alias] = concrete,
              !.sharable = IF shared /\ ~Includes(@, alias) THEN Append(@, alias) ELSE @]

bind(m, alias, binding, shared) ==
    [m EXCEPT !.bindings[alias] = binding,
              !.sharable = IF shared /\ ~Includes(@, alias) THEN Append(@, alias) ELSE @]

unBind(m, alias) ==
    LET m1 == destroy(m, alias).m
    IN  [m1 EXCEPT !.bindings = destroyReference(alias, @),
                   !.sharable = IF Includes(@, alias) THEN Splice(@, IndexOf(@, alias)) ELSE @]

\* the position of the first provider whose provides list has the alias, or 0
findProvider(m, alias) ==
    LET found == {i \in 1..Len(m.providers) : Includes(m.providers[i].provides, alias)}
    IN  IF found = {} THEN 0 ELSE CHOOSE i \in found : \A j \in found : i <= j

\* ProviderInstance.load()
bootProvider(m, i) ==
    [Log(m, "load", m.providers[i].name, Undefined, <<>>)
        EXCEPT !.providers[i].loads = @ + 1]

makeConcrete(m, alias, binding, injected) ==
    LET m1 == Log(m, "invoke", alias, binding, injected)
        n == Fresh(m1)
        constructed == Ret([m1 EXCEPT !.live = @ \cup {n}], NewObject(binding.k, n))
    IN  CASE binding.body = "throw" -> handleError(m1, Exception("Error", alias))
          [] binding.body # "throw" /\ isClass(binding) -> constructed
          [] binding.body = "object" /\ ~isClass(binding) -> constructed
          [] binding.body = "undefined" /\ ~isClass(binding) ->
                Ret(m1, Exception("Binding Exception", alias))
          [] binding.body = "null" /\ ~isClass(binding) ->
                handleError(m1, Exception("TypeError", alias))

RECURSIVE resolve(_, _, _)
RECURSIVE forEachDependency(_, _, _, _, _)

prepareForInjection(m, alias, instance) ==
    IF isCallable(instance)
    THEN forEachDependency(m, alias, readArguments(instance), 1, <<>>)
    ELSE Ret(m, <<>>)

\* the loop of _prepareForInjection with a circular dependency handed to the
\* error handler (and the dependency skipped) instead of thrown
forEachDependencyHandled(m, alias, dependencies, i, injected) ==
    IF i > Len(dependencies)
    THEN Ret(m, injected)
    ELSE LET dependency == dependencies[i]
         IN  IF Includes(m.injections, dependency)
             THEN LET h == handleError(m, Exception("Circular Dependency Exception", alias))
                  IN  IF h.thrown
                      THEN h
                      ELSE forEachDependency(h.m, alias, dependencies, i + 1,
                                             Append(injected, h.ret))
             ELSE LET r == resolve([m EXCEPT !.injections = Append(@, dependency)],
                                   dependency, FALSE)
                  IN  IF r.thrown
                      THEN r
                      ELSE forEachDependency(
                               [r.m EXCEPT !.injections = Splice(@, IndexOf(@, dependency))],
                               alias, dependencies, i + 1, Append(injected, r.ret))

\* the loop of _prepareForInjection with injections.unshift for injections.push
forEachDependencyUnshift(m, alias, dependencies, i, injected) ==
    IF i > Len(dependencies)
    THEN Ret(m, injected)
    ELSE LET dependency == dependencies[i]
         IN  IF Includes(m.injections, dependency)
             THEN Throw(m, Exception("Circular Dependency Exception", alias))
             ELSE LET r == resolve([m EXCEPT !.injections = Append(@, dependency)],
                                   dependency, FALSE)
                  IN  IF r.thrown
                      THEN r
                      ELSE forEachDependency(
                               [r.m EXCEPT !.injections = Splice(@, IndexOf(@, dependency))],
                               alias, dependencies, i + 1, <<r.ret>> \o injected)

forEachDependency(m, alias, dependencies, i, injected) ==
    IF i > Len(dependencies)
    THEN Ret(m, injected)
    ELSE LET dependency == dependencies[i]
         IN  IF Includes(m.injections, dependency)
             THEN Throw(m, Exception("Circular Dependency Exception", alias))
             ELSE LET r == resolve([m EXCEPT !.injections = Append(@, dependency)],
                                   dependency, FALSE)
                  IN  IF r.thrown
                      THEN r
                      ELSE forEachDependency(
                               [r.m EXCEPT !.injections = Splice(@, IndexOf(@, dependency))],
                               alias, dependencies, i + 1, Append(injected, r.ret))

resolveIfNotResolved(m, alias) ==
    LET binding == m.bindings[alias]
    IN  IF isCallable(binding)
        THEN LET p == prepareForInjection(m, alias, binding)
             IN  IF p.thrown THEN p ELSE makeConcrete(p.m, alias, binding, p.ret)
        ELSE Ret(m, binding)

\* the steps of _resolve after its fast path
resolveBinding(m, alias, rebound) ==
    LET m1 == IF rebound THEN destroy(m, alias).m ELSE m
    IN  IF ~isBound(m1, alias)
        THEN handleError(m1, Exception("Binding Exception", alias))
        ELSE LET p == findProvider(m1, alias)
                 m2 == IF p # 0 /\ m1.providers[p].isDeferred THEN bootProvider(m1, p) ELSE m1
                 r == resolveIfNotResolved(m2, alias)
             IN  IF r.thrown
                 THEN r
                 ELSE IF canShare(r.m, alias)
                      THEN Ret(setInstance(r.m, alias, r.ret, TRUE), r.ret)
                      ELSE r

\* entering and leaving a call of _resolve
Enter(m, alias) == Log([m EXCEPT !.depth = @ + 1], "resolve", alias, Undefined, <<>>)

Leave(r, alias) ==
    IF r.thrown
    THEN r
    ELSE [r EXCEPT !.m = [Log(@, "resolved", alias, r.ret, <<>>) EXCEPT !.depth = @ - 1]]

\* resolve without its fast path: the cache is never consulted
resolveWithoutCache(m, alias, rebound) ==
    Leave(resolveBinding(Enter(m, alias), alias, rebound), alias)

resolve(m, alias, rebound) ==
    LET m0 == Enter(m, alias)
    IN  Leave(IF isResolved(m0, alias) /\ canShare(m0, alias) /\ ~rebound
              THEN Ret(Log(m0, "cached", alias, getInstance(m0, alias), <<>>),
                       getInstance(m0, alias))
              ELSE resolveBinding(m0, alias, rebound),
              alias)

(***************************************************************************)
(* share(...aliases) and withOthers(...instances)                           *)
(***************************************************************************)
RECURSIVE shareEach(_, _, _)
shareEach(m, aliases, i) ==
    IF i > Len(aliases)
    THEN Ret(m, This)
    ELSE LET alias == aliases[i]
             r == IF ~isBound(m, alias)
                  THEN handleError(m, Exception("No binding available to share", alias))
                  ELSE IF ~canShare(m, alias)
                       THEN handleError(m, Exception("is not sharable", alias))
                       ELSE Ret([m EXCEPT !.shouldShare =
                                     IF Includes(@, alias) THEN @ ELSE Append(@, alias)], This)
         IN  IF r.thrown THEN r ELSE shareEach(r.m, aliases, i + 1)

share(m, aliases) == shareEach([m EXCEPT !.shouldShare = <<>>], aliases, 1)

shareWith(m, alias, object) ==
    IF Includes(m.sharedWith[alias], object)
    THEN m
    ELSE [m EXCEPT !.objects[object][getSharedAliasName(alias)] = makeSharableAlias(alias),
                   !.sharedWith[alias] = Append(@, object)]

RECURSIVE withEach(_, _, _, _)
withEach(m, instances, i, j) ==
    IF i > Len(m.shouldShare)
    THEN m
    ELSE IF j > Len(instances)
         THEN withEach(m, instances, i + 1, 1)
         ELSE withEach(shareWith(m, m.shouldShare[i], instances[j]), instances, i, j + 1)

withOthers(m, instances) ==
    [(IF Len(m.shouldShare) > 0 THEN withEach(m, instances, 1, 1) ELSE m)
        EXCEPT !.shouldShare = <<>>]

(***************************************************************************)
(* register(ServiceProvider) and bootProviders()                            *)
(***************************************************************************)
register(m, ServiceProvider) ==
    LET instance == [name |-> ServiceProvider.name,
                     isDeferred |-> ServiceProvider.isDeferred,
                     provides |-> ServiceProvider.provides,
                     loads |-> 0]
        at == {i \in 1..Len(m.providers) : m.providers[i].name = ServiceProvider.name}
    IN  [m EXCEPT !.providers =
            IF at = {} THEN Append(@, instance)
            ELSE [i \in 1..Len(@) |-> IF i \in at THEN instance ELSE @[i]]]

RECURSIVE registerEach(_, _)
registerEach(m, i) ==
    IF i > Len(m.providers)
    THEN m
    ELSE registerEach(Log(m, "register", m.providers[i].name, Undefined, <<>>), i + 1)

RECURSIVE bootEach(_, _)
\* the second loop of bootProviders without its isDeferred test
bootEachDeferredToo(m, i) ==
    IF i > Len(m.providers) THEN m ELSE bootEach(bootProvider(m, i), i + 1)

bootEach(m, i) ==
    IF i > Len(m.providers)
    THEN m
    ELSE bootEach(IF ~m.providers[i].isDeferred THEN bootProvider(m, i) ELSE m, i + 1)

bootProviders(m) == bootEach(registerEach(m, 1), 1)

(***************************************************************************)
(* The state of the container, and the calls made on it.                    *)
(***************************************************************************)
ObjectIds(values) == {v.n : v \in {w \in values : w.t = "object" /\ w.n > 0}}

Call(op, alias, arg, shared, list, outcome, value, trace) ==
    [op |-> op, alias |-> alias, arg |-> arg, shared |-> shared, list |-> list,
     outcome |-> outcome, value |-> value, trace |-> trace]

\* the container as the running call finds it
Machine ==
    [providers |-> providers, bindings |-> bindings, resolved |-> resolved,
     injections |-> injections, shouldShare |-> shouldShare, sharedWith |-> sharedWith,
     sharable |-> sharable, errorHandler |-> errorHandler, objects |-> objects,
     live |-> ObjectIds({resolved[a] : a \in Aliases} \cup {last.value}),
     depth |-> 0, trace |-> <<>>]

\* the container as the call leaves it
Store(m) ==
    /\ providers' = m.providers
    /\ bindings' = m.bindings
    /\ resolved' = m.resolved
    /\ injections' = m.injections
    /\ shouldShare' = m.shouldShare
    /\ sharedWith' = m.sharedWith
    /\ sharable' = m.sharable
    /\ errorHandler' = m.errorHandler
    /\ objects' = m.objects

Finish(r, op, alias, arg, shared, list) ==
    /\ Store(r.m)
    /\ last' = Call(op, alias, arg, shared, list,
                    IF r.thrown THEN "throw" ELSE "return", r.ret, r.m.trace)
    /\ UNCHANGED kernelVars

ContainerInit ==
    /\ providers = <<>>
    /\ bindings = [a \in Aliases |-> Undefined]
    /\ resolved = [a \in Aliases |-> Undefined]
    /\ injections = <<>>
    /\ shouldShare = <<>>
    /\ sharedWith = [a \in Aliases |-> <<>>]
    /\ sharable = <<>>
    /\ errorHandler = Null
    /\ objects = [o \in Targets |-> [p \in AccessorNames |-> Undefined]]
    /\ last = Call("new", "", Undefined, FALSE, <<>>, "return", This, <<>>)

KernelInit ==
    /\ pipes = <<>>
    /\ passable = 0
    /\ method = ""
    /\ cursor = 0
    /\ invoked = <<>>
    /\ delivered = <<>>
    /\ phase = "Idle"
    /\ form = ""

Init == ContainerInit /\ KernelInit

Make(alias) == Finish(resolve(Machine, alias, FALSE), "make", alias, Undefined, FALSE, <<>>)

Rebound(alias) == Finish(resolve(Machine, alias, TRUE), "rebound", alias, Undefined, FALSE, <<>>)

Bind(alias, binding, shared) ==
    Finish(Ret(bind(Machine, alias, binding, shared), This), "bind", alias, binding, shared, <<>>)

UnBind(alias) == Finish(Ret(unBind(Machine, alias), This), "unBind", alias, Undefined, FALSE, <<>>)

SetInstance(alias, concrete, shared) ==
    Finish(Ret(setInstance(Machine, alias, concrete, shared), concrete),
           "setInstance", alias, concrete, shared, <<>>)

Destroy(alias) == Finish(destroy(Machine, alias), "destroy", alias, Undefined, FALSE, <<>>)

Share(aliases) == Finish(share(Machine, aliases), "share", "", Undefined, FALSE, aliases)

WithOthers(instances) ==
    Finish(Ret(withOthers(Machine, instances), This), "withOthers", "", Undefined, FALSE, instances)

\* the call record of unShare lists the objects the alias was shared with
UnShare(alias) ==
    Finish(Ret(unShare(Machine, alias), Undefined),
           "unShare", alias, Undefined, FALSE, sharedWith[alias])

\* object.$alias(): the accessor that withOthers attached is invoked
Invoke(object, name) ==
    /\ isCallable(objects[object][name])
    /\ Finish(resolve(Machine, objects[object][name].of, FALSE),
              "invoke", objects[object][name].of, Undefined, FALSE, <<object, name>>)

ErrorHandler(Handler) ==
    Finish(Ret([Machine EXCEPT !.errorHandler = Handler], This),
           "errorHandler", "", Undefined, FALSE, <<>>)

Register(ServiceProvider) ==
    Finish(Ret(register(Machine, ServiceProvider), This),
           "register", ServiceProvider.name, Undefined, FALSE, <<>>)

BootProviders == Finish(Ret(bootProviders(Machine), Undefined), "bootProviders", "", Undefined, FALSE, <<>>)

(***************************************************************************)
(* The values the calls are made with.                                      *)
(***************************************************************************)
Leaf == Factory("leaf", "", <<>>, "object")
Klass == Factory("Klass", "Klass", <<>>, "object")
NoReturn == Factory("noReturn", "", <<>>, "undefined")
ReturnsNull == Factory("returnsNull", "", <<>>, "null")
Throws == Factory("throws", "", <<>>, "throw")
NeedsA == Factory("needsA", "", <<"A">>, "object")
NeedsB == Factory("needsB", "", <<"B">>, "object")
NeedsC == Factory("needsC", "", <<"C">>, "object")
NeedsBC == Factory("needsBC", "", <<" B", "C ">>, "object")
NeedsCA == Factory("needsCA", "", <<"C", "A">>, "object")

Handlers == {[handle |-> Val("function", "handle", "", 0), ret |-> Undefined],
             [handle |-> Val("function", "handle", "", 0), ret |-> Fallback]}

(***************************************************************************)
(* Spec: binding, caching and destroying.  A is bound to every kind of      *)
(* value, B is the dependency of A's factory.                               *)
(***************************************************************************)
CacheAliases == {"A", "B"}
CacheBindings ==
    ({"A"} \X {Leaf, Klass, NeedsB, NoReturn, ReturnsNull, ObjectLiteral, Zero, False,
               EmptyString})
        \cup ({"B"} \X {Leaf})
CacheInstances == {"A"} \X {ObjectLiteral, Zero}

Next ==
    \/ \E alias \in CacheAliases : Make(alias)
    \/ \E alias \in CacheAliases : Rebound(alias)
    \/ \E b \in CacheBindings, shared \in BOOLEAN : Bind(b[1], b[2], shared)
    \/ \E alias \in CacheAliases : UnBind(alias)
    \/ \E i \in CacheInstances, shared \in BOOLEAN : SetInstance(i[1], i[2], shared)
    \/ \E alias \in CacheAliases : Destroy(alias)
    \/ \E Handler \in Handlers : ErrorHandler(Handler)

Spec == Init /\ [][Next]_vars

(***************************************************************************)
(* InjectionSpec: a chain of factories.  A's factory takes (B, C), B's      *)
(* takes (C) or nothing, C's takes nothing, and may throw or be unbound.    *)
(***************************************************************************)
InjectionBindings ==
    ({"A"} \X {NeedsBC}) \cup ({"B"} \X {NeedsC, Klass}) \cup ({"C"} \X {Leaf, Throws})

InjectionAliases == {"A", "B", "C"}

InjectionNext ==
    \/ \E alias \in InjectionAliases : Make(alias)
    \/ \E b \in InjectionBindings, shared \in BOOLEAN : Bind(b[1], b[2], shared)
    \/ \E alias \in InjectionAliases : UnBind(alias)
    \/ \E Handler \in Handlers : ErrorHandler(Handler)

InjectionSpec == Init /\ [][InjectionNext]_vars

(***************************************************************************)
(* CycleSpec: factories that take each other, or themselves.  C is a       *)
(* shared leaf that B's second factory takes before it takes A.             *)
(***************************************************************************)
CycleBindings ==
    ({"A"} \X {NeedsA, NeedsB} \X BOOLEAN)
        \cup ({"B"} \X {NeedsA, NeedsCA} \X BOOLEAN)
        \cup ({"C"} \X {Leaf} \X {TRUE})
CycleInstances == {"B"} \X {ObjectLiteral}
CycleRebounds == {"A"}
CycleShares == {<<"B">>}

CycleAliases == {"A", "B", "C"}

CycleNext ==
    \/ \E alias \in CycleAliases : Make(alias)
    \/ \E alias \in CycleRebounds : Rebound(alias)
    \/ \E b \in CycleBindings : Bind(b[1], b[2], b[3])
    \/ \E i \in CycleInstances : SetInstance(i[1], i[2], TRUE)
    \/ \E aliases \in CycleShares : Share(aliases)
    \/ \E Handler \in Handlers : ErrorHandler(Handler)

CycleSpec == Init /\ [][CycleNext]_vars

(***************************************************************************)
(* SharingSpec: two aliases with the same accessor name, shared with two   *)
(* objects, resolved through make and through the accessors, unshared and   *)
(* unbound.                                                                 *)
(***************************************************************************)
SharingBindings == {<<"A", Leaf>>, <<"a", Klass>>}
SharingAliases == {"A", "a"}
SharingShares == {<<"A">>, <<"a">>, <<"A", "a">>}
SharingInstances == {<<"o1">>, <<"o2">>, <<"o1", "o2">>}
SharingHandlers == {Handler \in Handlers : Handler.ret = Undefined}

SharingNext ==
    \/ \E b \in SharingBindings, shared \in BOOLEAN : Bind(b[1], b[2], shared)
    \/ \E alias \in SharingAliases : Make(alias)
    \/ \E aliases \in SharingShares : Share(aliases)
    \/ \E instances \in SharingInstances : WithOthers(instances)
    \/ \E object \in Targets, name \in AccessorNames : Invoke(object, name)
    \/ \E alias \in SharingAliases : UnShare(alias)
    \/ \E alias \in SharingAliases : UnBind(alias)
    \/ \E Handler \in SharingHandlers : ErrorHandler(Handler)

SharingSpec == Init /\ [][SharingNext]_vars

(***************************************************************************)
(* ProviderSpec: service providers, deferred and not, registered in any     *)
(* order, booted, and booted again when an alias they provide is resolved.  *)
(***************************************************************************)
MaxLoads == 2

AppServiceProvider == [name |-> "AppServiceProvider", isDeferred |-> FALSE, provides |-> <<"A">>]
DeferredProvider == [name |-> "DeferredProvider", isDeferred |-> TRUE, provides |-> <<"B">>]
LateProvider == [name |-> "LateProvider", isDeferred |-> TRUE, provides |-> <<"A", "B">>]
ServiceProviders == {AppServiceProvider, DeferredProvider, LateProvider}
ProviderAliases == {"A", "B"}

\* load() has run at most MaxLoads times on every provider instance
LoadsBounded == \A i \in 1..Len(providers') : providers'[i].loads <= MaxLoads

ProviderNext ==
    \/ \E ServiceProvider \in ServiceProviders : Register(ServiceProvider)
    \/ BootProviders /\ LoadsBounded
    \/ \E alias \in ProviderAliases, shared \in BOOLEAN : Bind(alias, Leaf, shared)
    \/ \E alias \in ProviderAliases : Make(alias) /\ LoadsBounded
    \/ \E alias \in ProviderAliases : Rebound(alias) /\ LoadsBounded

ProviderSpec == Init /\ [][ProviderNext]_vars

(***************************************************************************)
(* The Kernel: send(passable).through(pipes).via(method).then(callback).    *)
(* via starts the traversal; every pipe is one step, in which the pipe      *)
(* either calls next with the state it passes on or never calls it.         *)
(* form tells which of the two call conventions drives the kernel: "chain"  *)
(* for send/through/via/then, "middleware" for setMiddleware and            *)
(* handle/terminate(initial, callback).                                     *)
(***************************************************************************)
MaxPipes == 4

\* a pipe: handle passes on the state plus its step, terminate the state
\* minus its step; a pipe that does not call next passes nothing on
Pipe(name, step, callsNext) == [name |-> name, step |-> step, callsNext |-> callsNext]
PipeA == Pipe("PipeA", 1, TRUE)
PipeB == Pipe("PipeB", 1, TRUE)
PipeC == Pipe("PipeC", 1, TRUE)
PipeD == Pipe("PipeD", 1, TRUE)
PipeStop == Pipe("PipeStop", 1, FALSE)
Pipes == {PipeA, PipeB, PipeC, PipeD, PipeStop}
PipeLists == UNION {[1..n -> Pipes] : n \in 0..MaxPipes}
Passables == {1, 5}
Methods == {"handle", "terminate"}

\* the position of the pipe that runs first, and of the one that runs after i
\* the traversal started at the last pipe whatever the method
FirstFromEnd(name) == Len(pipes)

\* the traversal started at the first pipe whatever the method
FirstFromStart(name) == 1

First(name) == IF name = "handle" THEN 1 ELSE Len(pipes)

\* the traversal went up the array whatever the method
AfterAscending(i) == i + 1

After(i) == IF method = "handle" THEN i + 1 ELSE i - 1

\* the state the pipe passes to next
Pass(pipe, state) == IF method = "handle" THEN state + pipe.step ELSE state - pipe.step

\* the state the pipe at the cursor receives, and the one that leaves the pipeline
Current == IF invoked = <<>> THEN passable ELSE invoked[Len(invoked)].next

Send(state) ==
    /\ phase # "Threading"
    /\ passable' = state
    /\ phase' = "Sending"
    /\ method' = ""
    /\ cursor' = 0
    /\ invoked' = <<>>
    /\ delivered' = <<>>
    /\ form' = "chain"
    /\ UNCHANGED pipes
    /\ UNCHANGED containerVars

Through(list) ==
    /\ phase = "Sending"
    /\ pipes' = list
    /\ UNCHANGED <<passable, method, cursor, invoked, delivered, phase, form>>
    /\ UNCHANGED containerVars

Via(name) ==
    /\ phase = "Sending"
    /\ method' = name
    /\ cursor' = First(name)
    /\ phase' = IF pipes = <<>> THEN "Completed" ELSE "Threading"
    /\ UNCHANGED <<pipes, passable, invoked, delivered, form>>
    /\ UNCHANGED containerVars

\* the pipe at the cursor is invoked with (state, next)
Thread ==
    /\ phase = "Threading"
    /\ LET pipe == pipes[cursor]
       IN  IF pipe.callsNext
           THEN /\ invoked' = Append(invoked, [at |-> cursor, pipe |-> pipe.name,
                                              state |-> Current, called |-> TRUE,
                                              next |-> Pass(pipe, Current)])
                /\ cursor' = After(cursor)
                /\ phase' = IF After(cursor) \in 1..Len(pipes) THEN "Threading" ELSE "Completed"
           ELSE /\ invoked' = Append(invoked, [at |-> cursor, pipe |-> pipe.name,
                                              state |-> Current, called |-> FALSE,
                                              next |-> Current])
                /\ cursor' = cursor
                /\ phase' = "Halted"
    /\ UNCHANGED <<pipes, passable, method, delivered, form>>
    /\ UNCHANGED containerVars

\* then(callback) with the callback called at a pipe that halted as well
ThenAlsoWhenHalted ==
    /\ phase \in {"Completed", "Halted"}
    /\ delivered = <<>>
    /\ delivered' = <<Current>>
    /\ UNCHANGED <<pipes, passable, method, cursor, invoked, phase, form>>
    /\ UNCHANGED containerVars

\* then(callback): the callback receives the state that left the pipeline
Then ==
    /\ phase = "Completed"
    /\ delivered = <<>>
    /\ delivered' = <<Current>>
    /\ UNCHANGED <<pipes, passable, method, cursor, invoked, phase, form>>
    /\ UNCHANGED containerVars

(***************************************************************************)
(* setMiddleware(pipes) and handle(initial, callback) /                     *)
(* terminate(initial, callback): one call runs the pipes from the first to  *)
(* the last of the traversal and calls the callback.                        *)
(***************************************************************************)
\* the positions of the pipes in the order in which the method visits them
Order(list, name) ==
    [k \in 1..Len(list) |-> IF name = "handle" THEN k ELSE Len(list) + 1 - k]

\* the state the pipe passes to next when its method of that name is called
Apply(pipe, name, state) ==
    IF name = "handle" THEN state + pipe.step ELSE state - pipe.step

\* the k-th pipe of the traversal is called with the state; its next calls
\* the one after it, and the next of the last one calls the callback
RECURSIVE thread(_, _, _, _, _)
thread(list, name, k, state, seen) ==
    IF k > Len(list)
    THEN [invoked |-> seen, delivered |-> <<state>>, phase |-> "Completed",
          cursor |-> IF name = "handle" THEN Len(list) + 1 ELSE 0]
    ELSE LET at == Order(list, name)[k]
             pipe == list[at]
         IN  IF pipe.callsNext
             THEN thread(list, name, k + 1, Apply(pipe, name, state),
                         Append(seen, [at |-> at, pipe |-> pipe.name, state |-> state,
                                       called |-> TRUE,
                                       next |-> Apply(pipe, name, state)]))
             ELSE [invoked |-> Append(seen, [at |-> at, pipe |-> pipe.name,
                                             state |-> state, called |-> FALSE,
                                             next |-> state]),
                   delivered |-> <<>>, phase |-> "Halted", cursor |-> at]

run(list, name, state) == thread(list, name, 1, state, <<>>)

\* the kernel is configured before it is driven
SetMiddleware(list) ==
    /\ phase = "Idle"
    /\ pipes' = list
    /\ phase' = "Configured"
    /\ form' = "middleware"
    /\ method' = ""
    /\ cursor' = 0
    /\ invoked' = <<>>
    /\ delivered' = <<>>
    /\ UNCHANGED passable
    /\ UNCHANGED containerVars

\* handle(initial, callback) and terminate(initial, callback)
Dispatch(name, initial) ==
    /\ phase = "Configured"
    /\ passable' = initial
    /\ method' = name
    /\ LET r == run(pipes, name, initial)
       IN  /\ cursor' = r.cursor
           /\ invoked' = r.invoked
           /\ delivered' = r.delivered
           /\ phase' = r.phase
    /\ UNCHANGED <<pipes, form>>
    /\ UNCHANGED containerVars

Handle(initial) == Dispatch("handle", initial)

Terminate(initial) == Dispatch("terminate", initial)

KernelNext ==
    \/ \E state \in Passables : Send(state)
    \/ \E list \in PipeLists : Through(list)
    \/ \E name \in Methods : Via(name)
    \/ Thread
    \/ Then
    \/ \E list \in PipeLists : SetMiddleware(list)
    \/ \E initial \in Passables : Handle(initial)
    \/ \E initial \in Passables : Terminate(initial)

KernelSpec == Init /\ [][KernelNext]_vars

(***************************************************************************)
(* What a call did, read from its record.                                   *)
(***************************************************************************)
Events(call, e) == {i \in 1..Len(call.trace) : call.trace[i].e = e}

\* the factory bound to the alias was invoked during the call
Invoked(call, alias) == \E i \in Events(call, "invoke") : call.trace[i].a = alias

\* an error was raised during the call, to the handler or to the caller
Raised(call, error) ==
    \E i \in Events(call, "handle") \cup Events(call, "throw") : call.trace[i].v = error

Failed(call) == Events(call, "handle") \cup Events(call, "throw") # {}

\* the call returned an object that a factory built during the call
Constructed(call) ==
    /\ call.outcome = "return"
    /\ call.value.t = "object"
    /\ call.value.n > 0
    /\ Events(call, "invoke") # {}
    /\ ~Failed(call)

C2_UnsharedMakeCachesNothing ==
    [][\A a \in Aliases :
          (/\ last.op = "bind" /\ last.alias = a /\ ~last.shared
           /\ isCallable(last.arg) /\ ~isset(resolved[a])
           /\ last'.op = "make" /\ last'.alias = a /\ last'.outcome = "return")
          => (Invoked(last', a) /\ ~isset(resolved'[a]))]_vars

(***************************************************************************)
(* C3: a rebound(A) that constructs an instance returns an object that was  *)
(* not cached before, and afterwards the cache of A does not hold the       *)
(* instance it held before the call: it holds the new one or nothing.       *)
(***************************************************************************)
C3_ReboundReplacesCached ==
    [][\A a \in Aliases :
          (/\ last'.op = "rebound" /\ last'.alias = a /\ Constructed(last')
           /\ isCallable(bindings[a]))
          => (/\ Invoked(last', a)
              /\ last'.value # resolved[a]
              /\ isset(resolved[a]) => resolved'[a] # resolved[a]
              /\ isset(resolved'[a]) => resolved'[a] = last'.value)]_vars

(***************************************************************************)
(* C4: a make(A) that directly follows unBind(A) raises the Binding         *)
(* exception for A.                                                         *)
(***************************************************************************)
C4_MakeAfterUnBindFails ==
    [][\A a \in Aliases :
          (/\ last.op = "unBind" /\ last.alias = a
           /\ last'.op = "make" /\ last'.alias = a)
          => Raised(last', Exception("Binding Exception", a))]_vars

(***************************************************************************)
(* Cycles of factories.                                                     *)
(***************************************************************************)
Requires(binding, alias) == isCallable(binding) /\ Includes(readArguments(binding), alias)

FirstParameter(binding, alias) ==
    /\ isCallable(binding)
    /\ Len(readArguments(binding)) > 0
    /\ readArguments(binding)[1] = alias

\* _resolve would return the alias from the cache
Cached(alias) == isset(resolved[alias]) /\ Includes(sharable, alias)

RaisedCircular(call) ==
    \E i \in Events(call, "handle") \cup Events(call, "throw") :
        call.trace[i].v.k = "Circular Dependency Exception"

CycleFails(a, b) ==
    /\ RaisedCircular(last')
    /\ ~Invoked(last', a) /\ ~Invoked(last', b)
    /\ resolved'[a] = resolved[a] /\ resolved'[b] = resolved[b]

(***************************************************************************)
(* C5 as stated: when A's factory requires B and B's factory requires A (B  *)
(* may be A itself), make(A) raises a Circular Dependency error, invokes    *)
(* neither factory and caches nothing for A or B.                           *)
(***************************************************************************)
C5_CycleFails ==
    [][\A a, b \in Aliases :
          (/\ Requires(bindings[a], b) /\ Requires(bindings[b], a)
           /\ last'.op = "make" /\ last'.alias = a)
          => CycleFails(a, b)]_vars

(***************************************************************************)
(* C5 as amended: when the first parameter of A's factory is B and the      *)
(* first parameter of B's factory is A (B may be A itself), and neither A   *)
(* nor B has an instance that _resolve returns from the cache, make(A)      *)
(* raises a Circular Dependency error, invokes neither factory and caches   *)
(* nothing for A or B.                                                      *)
(***************************************************************************)
C5_UncachedCycleFails ==
    [][\A a, b \in Aliases :
          (/\ FirstParameter(bindings[a], b) /\ FirstParameter(bindings[b], a)
           /\ ~Cached(a) /\ ~Cached(b)
           /\ last'.op = "make" /\ last'.alias = a)
          => CycleFails(a, b)]_vars

\* make(A) went from A to B and back to A, and failed there
C5_Witness ==
    /\ last.op = "make" /\ last.alias = "A"
    /\ bindings["A"] = NeedsB /\ bindings["B"] = NeedsA
    /\ Cardinality(Events(last, "resolve")) = 3
    /\ RaisedCircular(last)
    /\ last.outcome = "throw"
    /\ Events(last, "invoke") = {}

(***************************************************************************)
(* The order of the events of a resolution.                                 *)
(***************************************************************************)
Nth(S, n) == CHOOSE x \in S : Cardinality({y \in S : y < x}) = n - 1

\* the _resolve call that invokes the factory at event i
Enclosing(call, i) ==
    LET opened == {j \in 1..(i - 1) : /\ call.trace[j].e = "resolve"
                                      /\ call.trace[j].a = call.trace[i].a
                                      /\ call.trace[j].d = call.trace[i].d}
    IN  CHOOSE j \in opened : \A k \in opened : k <= j

\* before the factory is invoked at event i, its parameters are resolved one
\* after the other in the declared order, each from start to end before the
\* next starts, and the values they resolve to are the arguments, in order
InDeclaredOrder(call, i) ==
    LET invoke == call.trace[i]
        params == readArguments(invoke.v)
        from == Enclosing(call, i)
        steps == {j \in (from + 1)..(i - 1) : /\ call.trace[j].d = invoke.d + 1
                                              /\ call.trace[j].e \in {"resolve", "resolved"}}
    IN  /\ Len(invoke.args) = Len(params)
        /\ Cardinality(steps) = 2 * Len(params)
        /\ \A p \in 1..Len(params) :
              LET start == call.trace[Nth(steps, 2 * p - 1)]
                  end == call.trace[Nth(steps, 2 * p)]
              IN  /\ start.e = "resolve" /\ start.a = params[p]
                  /\ end.e = "resolved" /\ end.a = params[p]
                  /\ end.v = invoke.args[p]
        /\ \A j \in (from + 1)..(i - 1) :
              call.trace[j].d > invoke.d =>
                  \E p \in 1..Len(params) : Nth(steps, 2 * p - 1) <= j /\ j <= Nth(steps, 2 * p)

(***************************************************************************)
(* C6: whenever a factory is invoked during make or rebound, its declared   *)
(* parameters have been resolved in declared order, each completely (its    *)
(* own dependencies included) before the next one starts, and the factory   *)
(* receives the resolved values positionally in that order.                 *)
(***************************************************************************)
C6_DependenciesInDeclaredOrder ==
    last.op \in {"make", "rebound"} =>
        \A i \in Events(last, "invoke") : InDeclaredOrder(last, i)

\* make(A) built C for B, then B, then resolved C again, then built A from (B, C)
C6_Witness ==
    /\ last.op = "make" /\ last.alias = "A" /\ last.outcome = "return"
    /\ \E i \in Events(last, "invoke") :
          /\ last.trace[i].a = "A" /\ Len(last.trace[i].args) = 2
          /\ last.trace[i].args[1].k = "needsC"
          /\ last.trace[i].args[2].k = "leaf"
    /\ \E i \in Events(last, "invoke") : last.trace[i].a = "C" /\ last.trace[i].d = 3

(***************************************************************************)
(* C9: with an error handler installed no make, rebound or share throws to  *)
(* its caller; without a handler a call that raises an error throws it.     *)
(***************************************************************************)
C9_HandlerReceivesEveryError ==
    last.op \in {"make", "rebound", "share"} =>
        /\ errorHandler # Null => (last.outcome = "return" /\ Events(last, "throw") = {})
        /\ errorHandler = Null => (Failed(last) => last.outcome = "throw")

(***************************************************************************)
(* C7: bootProviders() calls register() once on every stored provider, in   *)
(* registration order, before it calls any load(); it then calls load(), in *)
(* registration order, on exactly the providers that are not deferred.      *)
(***************************************************************************)
NotDeferred == SelectSeq(providers, LAMBDA provider : ~provider.isDeferred)

C7_BootIsTwoPhase ==
    last.op = "bootProviders" =>
        /\ Len(last.trace) = Len(providers) + Len(NotDeferred)
        /\ \A i \in 1..Len(providers) :
              last.trace[i].e = "register" /\ last.trace[i].a = providers[i].name
        /\ \A i \in 1..Len(NotDeferred) :
              /\ last.trace[Len(providers) + i].e = "load"
              /\ last.trace[Len(providers) + i].a = NotDeferred[i].name

\* bootProviders() has run over three providers of which only the second is
\* not deferred
C7_Witness ==
    /\ last.op = "bootProviders"
    /\ Len(providers) = 3
    /\ providers[1].isDeferred /\ ~providers[2].isDeferred /\ providers[3].isDeferred
    /\ Len(last.trace) = 4

(***************************************************************************)
(* C8: load() is called at most once on a deferred provider.                *)
(***************************************************************************)
C8_DeferredLoadedOnce ==
    \A i \in 1..Len(providers) : providers[i].isDeferred => providers[i].loads <= 1

(***************************************************************************)
(* C10: in a handle traversal the pipes are invoked in array order from     *)
(* index 0, each one once, the first with the state that was sent and each  *)
(* later one with the state the pipe before it passed to next; when every   *)
(* pipe has called next the callback receives the state the last pipe       *)
(* passed to next, so four pipes that add 1 turn 1 into 5.                  *)
(***************************************************************************)
AllCallNext == \A i \in 1..Len(pipes) : pipes[i].callsNext

C10_HandleRunsInArrayOrder ==
    method = "handle" =>
        /\ Len(invoked) <= Len(pipes)
        /\ \A i \in 1..Len(invoked) :
              /\ invoked[i].at = i
              /\ invoked[i].pipe = pipes[i].name
              /\ invoked[i].state = (IF i = 1 THEN passable ELSE invoked[i - 1].next)
        /\ (phase = "Completed" /\ AllCallNext) => Len(invoked) = Len(pipes)
        /\ delivered # <<>> =>
              /\ phase = "Completed" /\ AllCallNext
              /\ delivered = <<IF pipes = <<>> THEN passable ELSE invoked[Len(pipes)].next>>
              /\ (passable = 1 /\ pipes = <<PipeA, PipeB, PipeC, PipeD>>) => delivered = <<5>>

\* {state: 1} went through [PipeA, PipeB, PipeC, PipeD] and came out as 5
C10_Witness ==
    /\ method = "handle"
    /\ passable = 1
    /\ pipes = <<PipeA, PipeB, PipeC, PipeD>>
    /\ Len(invoked) = 4
    /\ delivered = <<5>>

(***************************************************************************)
(* C11: in a terminate traversal the pipes are invoked in reverse array     *)
(* order from the last index, each one once, the first with the state that  *)
(* was sent and each later one with the state the pipe before it passed to  *)
(* next; when every pipe has called next the callback receives the state    *)
(* the pipe at index 0 passed to next, so four pipes that subtract 1 turn 5 *)
(* into 1.                                                                  *)
(***************************************************************************)
C11_TerminateRunsInReverseOrder ==
    method = "terminate" =>
        /\ Len(invoked) <= Len(pipes)
        /\ \A i \in 1..Len(invoked) :
              /\ invoked[i].at = Len(pipes) + 1 - i
              /\ invoked[i].pipe = pipes[Len(pipes) + 1 - i].name
              /\ invoked[i].state = (IF i = 1 THEN passable ELSE invoked[i - 1].next)
        /\ (phase = "Completed" /\ AllCallNext) => Len(invoked) = Len(pipes)
        /\ delivered # <<>> =>
              /\ phase = "Completed" /\ AllCallNext
              /\ pipes # <<>> => invoked[Len(pipes)].at = 1
              /\ delivered = <<IF pipes = <<>> THEN passable ELSE invoked[Len(pipes)].next>>
              /\ (passable = 5 /\ pipes = <<PipeA, PipeB, PipeC, PipeD>>) => delivered = <<1>>

\* send({state: 5}).through([PipeA, PipeB, PipeC, PipeD]).via('terminate') ran
\* PipeD first and PipeA last, and then(callback) received 1
C11_Witness ==
    /\ form = "chain"
    /\ method = "terminate"
    /\ passable = 5
    /\ pipes = <<PipeA, PipeB, PipeC, PipeD>>
    /\ Len(invoked) = 4
    /\ invoked[1].pipe = "PipeD" /\ invoked[4].pipe = "PipeA"
    /\ delivered = <<1>>

(***************************************************************************)
(* C12: a traversal that has ended, by the callback being called or by a    *)
(* pipe that halted, has invoked the sequence of pipes and delivered the    *)
(* state that handle(input, callback) or terminate(input, callback), the    *)
(* one named like the method, produces for the same pipes and input; this   *)
(* holds for send(input).through(pipes).via(method).then(callback) as for   *)
(* setMiddleware(pipes).handle / terminate(input, callback).                *)
(***************************************************************************)
C12_FormsAreEquivalent ==
    (phase = "Halted" \/ delivered # <<>>) =>
        /\ method \in Methods
        /\ invoked = run(pipes, method, passable).invoked
        /\ delivered = run(pipes, method, passable).delivered
        /\ phase = run(pipes, method, passable).phase

\* the two-step form has ended a terminate traversal of three pipes in which
\* every pipe was invoked, and its callback has been called
C12_Witness ==
    /\ form = "chain"
    /\ method = "terminate"
    /\ Len(pipes) = 3
    /\ Len(invoked) = 3
    /\ delivered # <<>>
    /\ delivered = run(pipes, "terminate", passable).delivered

(***************************************************************************)
(* C13: a pipe that does not call next is the last pipe invoked: the pipes  *)
(* before it in the traversal order have each been invoked once, in that    *)
(* order, no pipe after it is invoked and the callback is not called, in    *)
(* the handle and in the terminate direction.                               *)
(***************************************************************************)
C13_PipeWithoutNextHalts ==
    /\ \A i \in 1..Len(invoked) :
          ~invoked[i].called =>
              /\ i = Len(invoked)
              /\ phase = "Halted"
              /\ ~pipes[invoked[i].at].callsNext
    /\ phase = "Halted" =>
          /\ invoked # <<>>
          /\ ~invoked[Len(invoked)].called
          /\ delivered = <<>>
          /\ \A i \in 1..Len(invoked) :
                /\ invoked[i].at = (IF method = "handle" THEN i ELSE Len(pipes) + 1 - i)
                /\ i < Len(invoked) => pipes[invoked[i].at].callsNext
    /\ delivered # <<>> => \A i \in 1..Len(pipes) : pipes[i].callsNext

\* a terminate traversal of [PipeA, PipeStop, PipeB, PipeC] has run PipeC and
\* PipeB and halted at PipeStop, so that PipeA was never invoked
C13_Witness ==
    /\ phase = "Halted"
    /\ method = "terminate"
    /\ pipes = <<PipeA, PipeStop, PipeB, PipeC>>
    /\ Len(invoked) = 3
    /\ invoked[3].pipe = "PipeStop"
    /\ delivered = <<>>

(***************************************************************************)
(* Sharing.                                                                 *)
(***************************************************************************)
\* how many times the object is in the shared-with list of the alias
Occurrences(list, object) == Cardinality({i \in 1..Len(list) : list[i] = object})

(***************************************************************************)
(* C14: when share(..X..) has returned for a bound, sharable alias X, the   *)
(* withOthers(..obj..) that follows it directly leaves on obj, under the    *)
(* name '$' + X with its first letter in lower case, the accessor that      *)
(* calls make(X), and obj is in the shared-with list of X exactly once.     *)
(***************************************************************************)
C14_ShareAttachesAccessor ==
    [][\A X \in Aliases, obj \in Targets :
          (/\ last.op = "share" /\ last.outcome = "return" /\ Includes(last.list, X)
           /\ isset(bindings[X]) /\ Includes(sharable, X)
           /\ last'.op = "withOthers" /\ Includes(last'.list, obj))
          => (/\ objects'[obj][getSharedAliasName(X)] = makeSharableAlias(X)
              /\ Occurrences(sharedWith'[X], obj) = 1)]_vars

(***************************************************************************)
(* C15: unShare(X) removes the accessor of X from every object X was shared *)
(* with and empties the shared-with list of X, and leaves the bindings, the *)
(* resolved instances, the sharable list and the shared-with lists of the   *)
(* other aliases as they were.                                              *)
(***************************************************************************)
C15_UnShareRemovesAccessors ==
    [][\A X \in Aliases :
          (last'.op = "unShare" /\ last'.alias = X)
          => (/\ \A obj \in Targets :
                    Includes(sharedWith[X], obj) =>
                        ~isset(objects'[obj][getSharedAliasName(X)])
              /\ sharedWith'[X] = <<>>
              /\ bindings' = bindings
              /\ resolved' = resolved
              /\ sharable' = sharable
              /\ \A Y \in Aliases \ {X} : sharedWith'[Y] = sharedWith[Y])]_vars

\* unShare('A') has run while A, bound and resolved, was shared with both
\* objects, and the alias 'a' stays shared
C15_Witness ==
    /\ last.op = "unShare" /\ last.alias = "A"
    /\ last.list = <<"o1", "o2">>
    /\ isset(bindings["A"]) /\ isset(resolved["A"])
    /\ sharedWith["A"] = <<>>
    /\ sharedWith["a"] # <<>>
    /\ \A obj \in Targets : ~isset(objects[obj]["$a"])

(***************************************************************************)
(* C16: an alias has a resolved instance only if it is bound.               *)
(***************************************************************************)
C16_ResolvedOnlyIfBound ==
    \A a \in Aliases : isset(resolved[a]) => isset(bindings[a])

(***************************************************************************)
(* C17: a make(A) that invokes a factory of A which returns undefined       *)
(* raises the Binding exception for A, to the handler or to the caller, and *)
(* leaves no instance cached for A.                                         *)
(***************************************************************************)
ReturnsUndefined(binding) ==
    isCallable(binding) /\ ~isClass(binding) /\ binding.body = "undefined"

C17_UndefinedResultFails ==
    [][\A a \in Aliases :
          (/\ ReturnsUndefined(bindings[a])
           /\ last'.op = "make" /\ last'.alias = a /\ Invoked(last', a))
          => (/\ Raised(last', Exception("Binding Exception", a))
              /\ errorHandler = Null => last'.outcome = "throw"
              /\ ~isset(resolved'[a]))]_vars

(***************************************************************************)
(* C18: after unBind(A) the alias A is not bound, not resolved, not         *)
(* sharable and not shared, and no object carries the accessor of A; an     *)
(* unBind(A) that directly follows an unBind(A) changes nothing in the      *)
(* container.                                                               *)
(***************************************************************************)
C18_UnBindClearsAlias ==
    [][\A a \in Aliases :
          (last'.op = "unBind" /\ last'.alias = a)
          => (/\ ~isset(bindings'[a])
              /\ ~isset(resolved'[a])
              /\ ~Includes(sharable', a)
              /\ sharedWith'[a] = <<>>
              /\ \A obj \in Targets :
                    objects'[obj][getSharedAliasName(a)] # makeSharableAlias(a)
              /\ (last.op = "unBind" /\ last.alias = a) =>
                    <<providers, bindings, resolved, injections, shouldShare, sharedWith,
                      sharable, errorHandler, objects>>'
                    = <<providers, bindings, resolved, injections, shouldShare, sharedWith,
                        sharable, errorHandler, objects>>)]_vars

(***************************************************************************)
(* C19: between the calls made on the container the injection stack is      *)
(* empty, and it never holds an alias twice.                                *)
(***************************************************************************)
C19_InjectionStackEmpty ==
    /\ injections = <<>>
    /\ \A i, j \in 1..Len(injections) : injections[i] = injections[j] => i = j

(***************************************************************************)
(* C20: when A is sharable and holds an instance a factory built, a make(A) *)
(* that directly follows bind(A, f2) and returns has invoked f2 and returns *)
(* an instance that f2 built.                                               *)
(***************************************************************************)
C20_MakeUsesCurrentBinding ==
    [][\A a \in Aliases :
          (/\ last.op = "bind" /\ last.alias = a /\ isCallable(last.arg)
           /\ Includes(sharable, a)
           /\ resolved[a].t = "object" /\ resolved[a].n > 0
           /\ last'.op = "make" /\ last'.alias = a /\ last'.outcome = "return")
          => (/\ Invoked(last', a)
              /\ last'.value.t = "object"
              /\ last'.value.k = last.arg.k)]_vars

====
